---- MODULE Spec2Model ----
(***************************************************************************)
(* Model of the `#[auto_default]` attribute macro (src/src/lib.rs).        *)
(*                                                                         *)
(* The macro is a single forward pass over a token tree.  A token is a     *)
(* record [k, s, j, ts, sp]: kind, text (the delimiter for a group),       *)
(* spacing (puncts only), nested tokens (groups only) and span.  Spans of  *)
(* input tokens are their positions in source order (1, 2, ...); the span  *)
(* 0 is Span::call_site(), carried by tokens the macro creates without     *)
(* giving them a span.                                                     *)
(***************************************************************************)
EXTENDS Integers, Sequences, FiniteSets, TLC

VARIABLES
    args,               \* auto_default: the attribute's arguments
    input,              \* auto_default: the annotated item
    pc,                 \* position in auto_default
    source,             \* tokens of `input` not yet consumed
    sink,               \* tokens collected for the output
    compile_errors,     \* diagnostics collected so far
    item_kind,          \* "Struct" | "Enum" | "-"
    item_ident_span,    \* span of the item's name
    source_item_fields, \* the brace group found after the header (<<>> before)
    source_variants,    \* enum: variant tokens not yet consumed
    sink_variants,      \* enum: variant tokens collected
    is_skip,            \* enum: stream_attrs' result for the current variant
    variant_ident_span, \* enum: span of the current variant's name
    caller,             \* which arm called add_default_field_values
    fields,             \* add_default_field_values: its `fields` group
    input_fields,       \* add_default_field_values: tokens not yet consumed
    output_fields,      \* add_default_field_values: tokens collected
    is_skip_variant,    \* add_default_field_values: its third parameter
    field_is_skip,      \* add_default_field_values: `is_skip` of line 624
    field_ident_span,   \* add_default_field_values: span of the field's name
    output              \* the returned TokenStream (<<>> before the return)

vars == <<args, input, pc, source, sink, compile_errors, item_kind,
          item_ident_span, source_item_fields, source_variants, sink_variants,
          is_skip, variant_ident_span, caller, fields, input_fields,
          output_fields, is_skip_variant, field_is_skip, field_ident_span,
          output>>

----------------------------------------------------------------------------
(* proc_macro token trees *)

call_site == 0

Ident(s, sp) == [k |-> "ident", s |-> s, j |-> "-", ts |-> <<>>, sp |-> sp]

Punct(c, j, sp) == [k |-> "punct", s |-> c, j |-> j, ts |-> <<>>, sp |-> sp]

Literal(s, sp) == [k |-> "lit", s |-> s, j |-> "-", ts |-> <<>>, sp |-> sp]

Group(d, ts, sp) == [k |-> "group", s |-> d, j |-> "-", ts |-> ts, sp |-> sp]

IsPunct(t, c) == t.k = "punct" /\ t.s = c

IsIdent(t, s) == t.k = "ident" /\ t.s = s

IsGroup(t, d) == t.k = "group" /\ t.s = d

\* Option<Span>: None
None == -1

\* Peekable::peek / Iterator::next on a token sequence
Peek(src) == IF src = <<>> THEN <<>> ELSE <<Head(src)>>

Rest(src) == IF src = <<>> THEN <<>> ELSE Tail(src)

----------------------------------------------------------------------------
(* Diagnostics and the injected initializer *)

\* impl IntoIterator for CompileError: ::core::compile_error!{ "message" }
CompileError(span, message) ==
    << Punct(":", "Joint", span), Punct(":", "Joint", span),
       Ident("core", span),
       Punct(":", "Joint", span), Punct(":", "Joint", span),
       Ident("compile_error", span),
       Punct("!", "Alone", span),
       Group("Brace", <<Literal(message, span)>>, span) >>

\* create_compile_error!: the span of the token, or call_site() when there is none
create_compile_error(spanned, message) ==
    CompileError(IF spanned = <<>> THEN call_site ELSE spanned[1].sp, message)

\* fn default(span): = ::core::default::Default::default()
default(span) ==
    << Punct("=", "Alone", call_site),
       Punct(":", "Joint", span), Punct(":", "Joint", span),
       Ident("core", span),
       Punct(":", "Joint", span), Punct(":", "Joint", span),
       Ident("default", span),
       Punct(":", "Joint", span), Punct(":", "Joint", span),
       Ident("Default", span),
       Punct(":", "Joint", span), Punct(":", "Joint", span),
       Ident("default", span),
       Group("Parenthesis", <<>>, span) >>

MsgArgs == "no arguments expected"
MsgKind == "expected a struct or an enum"
MsgBody == "expected struct with named fields"
MsgVariant == "#[auto_default(skip)] is only allowed on variants with named fields"
MsgDuplicate == "duplicate #[auto_default(skip)]"
MsgContainer == "#[auto_default(skip)] is not allowed on container"
MsgGroup == "expected (skip)"
MsgAfter == "expected (skip) after this"
MsgSkip == "expected skip"
MsgEmpty == "expected (skip), found ()"
MsgExtra == "unexpected token"

----------------------------------------------------------------------------
(* Fragment streamers *)

\* is_skip_attribute without the check of lines 554-557 for tokens after `skip`
is_skip_attribute_Lax(src, errors) ==
    IF src = <<>> \/ Head(src).k # "ident" \/ Head(src).s # "auto_default"
    THEN [span |-> None, source |-> src, errors |-> errors]
    ELSE
      LET auto_default_span == Head(src).sp
          s1 == Tail(src)
      IN  IF s1 = <<>>
          THEN [span |-> None, source |-> s1,
                errors |-> errors \o CompileError(auto_default_span, MsgAfter)]
          ELSE IF ~IsGroup(Head(s1), "Parenthesis")
          THEN [span |-> None, source |-> Tail(s1),
                errors |-> errors \o CompileError(Head(s1).sp, MsgGroup)]
          ELSE
            LET group == Head(s1)
                s2 == Tail(s1)
                inside == group.ts
            IN  IF inside = <<>>
                THEN [span |-> None, source |-> s2,
                      errors |-> errors \o CompileError(group.sp, MsgEmpty)]
                ELSE IF Head(inside).k # "ident"
                THEN [span |-> None, source |-> s2,
                      errors |-> errors \o CompileError(Head(inside).sp, MsgSkip)]
                ELSE IF Head(inside).s # "skip"
                THEN [span |-> None, source |-> s2,
                      errors |-> errors \o CompileError(Head(inside).sp, MsgSkip)]
                ELSE [span |-> Head(inside).sp, source |-> s2, errors |-> errors]

\* fn is_skip_attribute: [span, source, errors]; span = None unless the
\* attribute is `auto_default(skip)`; source is what is left of the
\* attribute's tokens
is_skip_attribute(src, errors) ==
    IF src = <<>> \/ Head(src).k # "ident" \/ Head(src).s # "auto_default"
    THEN [span |-> None, source |-> src, errors |-> errors]
    ELSE
      LET auto_default_span == Head(src).sp
          s1 == Tail(src)
      IN  IF s1 = <<>>
          THEN [span |-> None, source |-> s1,
                errors |-> errors \o CompileError(auto_default_span, MsgAfter)]
          ELSE IF ~IsGroup(Head(s1), "Parenthesis")
          THEN [span |-> None, source |-> Tail(s1),
                errors |-> errors \o CompileError(Head(s1).sp, MsgGroup)]
          ELSE
            LET group == Head(s1)
                s2 == Tail(s1)
                inside == group.ts
            IN  IF inside = <<>>
                THEN [span |-> None, source |-> s2,
                      errors |-> errors \o CompileError(group.sp, MsgEmpty)]
                ELSE IF Head(inside).k # "ident"
                THEN [span |-> None, source |-> s2,
                      errors |-> errors \o CompileError(Head(inside).sp, MsgSkip)]
                ELSE IF Head(inside).s # "skip"
                THEN [span |-> None, source |-> s2,
                      errors |-> errors \o CompileError(Head(inside).sp, MsgSkip)]
                ELSE IF Tail(inside) # <<>>
                THEN [span |-> None, source |-> s2,
                      errors |-> errors \o CompileError(Tail(inside)[1].sp, MsgExtra)]
                ELSE [span |-> Head(inside).sp, source |-> s2, errors |-> errors]

\* skip_found with the flag cleared by a second annotation
skip_found_Cleared(skip, span, errors) ==
    IF skip # None
    THEN [skip |-> None, errors |-> errors \o CompileError(span, MsgDuplicate)]
    ELSE [skip |-> span, errors |-> errors]

\* fn stream_attrs, lines 442-453: a valid skip annotation was found at span;
\* [skip, errors]
skip_found(skip, span, errors) ==
    IF skip # None
    THEN [skip |-> skip, errors |-> errors \o CompileError(span, MsgDuplicate)]
    ELSE [skip |-> span, errors |-> errors]

\* fn stream_attrs, lines 421-471: the loop over the attributes;
\* skip is the Option<Span> `is_skip`
RECURSIVE stream_attrs_loop(_, _, _, _)
stream_attrs_loop(src, snk, errors, skip) ==
    IF ~(src # <<>> /\ IsPunct(Head(src), "#"))
    THEN [source |-> src, sink |-> snk, errors |-> errors, skip |-> skip,
          panic |-> FALSE]
    ELSE
      LET pound == Head(src)
          s1 == Tail(src)
      IN  IF s1 = <<>> \/ Head(s1).k # "group"
          THEN [source |-> Rest(s1), sink |-> snk, errors |-> errors,
                skip |-> skip, panic |-> TRUE]
          ELSE
            LET attr == Head(s1)
                Found(f) == stream_attrs_loop(Tail(s1), snk, f.errors, f.skip)
                Checked(r) ==
                    IF r.span # None
                    THEN Found(skip_found(skip, r.span, r.errors))
                    ELSE stream_attrs_loop(Tail(s1),
                             snk \o <<pound, Group(attr.s, r.source, attr.sp)>>,
                             r.errors, skip)
            IN  Checked(is_skip_attribute(attr.ts, errors))

\* stream_attrs without the placement check of lines 473-480
stream_attrs_Unchecked(src, snk, errors, is_skip_allowed) ==
    LET Looped(r) ==
            [source |-> r.source, sink |-> r.sink, errors |-> r.errors,
             is_skip |-> r.skip # None, panic |-> r.panic]
    IN  Looped(stream_attrs_loop(src, snk, errors, None))

\* fn stream_attrs: [source, sink, errors, is_skip, panic]
stream_attrs(src, snk, errors, is_skip_allowed) ==
    LET Looped(r) ==
            [source |-> r.source, sink |-> r.sink,
             errors |-> IF r.skip # None /\ ~is_skip_allowed
                        THEN r.errors \o CompileError(r.skip, MsgContainer)
                        ELSE r.errors,
             is_skip |-> r.skip # None,
             panic |-> r.panic]
    IN  Looped(stream_attrs_loop(src, snk, errors, None))

\* fn stream_vis: [source, sink]
stream_vis(src, snk) ==
    IF src # <<>> /\ IsIdent(Head(src), "pub")
    THEN LET s1 == Tail(src)
         IN  IF s1 # <<>> /\ IsGroup(Head(s1), "Parenthesis")
             THEN [source |-> Tail(s1), sink |-> snk \o <<Head(src), Head(s1)>>]
             ELSE [source |-> s1, sink |-> snk \o <<Head(src)>>]
    ELSE [source |-> src, sink |-> snk]

\* fn stream_ident: [source, sink, span]; span = None at the end of the input
stream_ident(src, snk) ==
    IF src = <<>>
    THEN [source |-> src, sink |-> snk, span |-> None]
    ELSE [source |-> Tail(src), sink |-> snk \o <<Head(src)>>, span |-> Head(src).sp]

\* fn stream_enum_variant_discriminant_and_comma, lines 375-389: the loop
\* over the discriminant expression
RECURSIVE stream_discriminant(_, _)
stream_discriminant(src, snk) ==
    IF src = <<>>
    THEN [source |-> src, sink |-> snk]
    ELSE IF IsPunct(Head(src), ",")
    THEN [source |-> Tail(src), sink |-> snk \o <<Head(src)>>]
    ELSE stream_discriminant(Tail(src), snk \o <<Head(src)>>)

\* stream_enum_variant_discriminant_and_comma without the `=` of line 371
stream_enum_variant_discriminant_and_comma_EqDropped(src, snk) ==
    IF src = <<>>
    THEN [source |-> src, sink |-> snk, panic |-> FALSE]
    ELSE IF IsPunct(Head(src), ",")
    THEN [source |-> Tail(src), sink |-> snk \o <<Head(src)>>, panic |-> FALSE]
    ELSE IF IsPunct(Head(src), "=")
    THEN LET r == stream_discriminant(Tail(src), snk)
         IN  [source |-> r.source, sink |-> r.sink, panic |-> FALSE]
    ELSE [source |-> Tail(src), sink |-> snk, panic |-> TRUE]

\* fn stream_enum_variant_discriminant_and_comma: [source, sink, panic]
stream_enum_variant_discriminant_and_comma(src, snk) ==
    IF src = <<>>
    THEN [source |-> src, sink |-> snk, panic |-> FALSE]
    ELSE IF IsPunct(Head(src), ",")
    THEN [source |-> Tail(src), sink |-> snk \o <<Head(src)>>, panic |-> FALSE]
    ELSE IF IsPunct(Head(src), "=")
    THEN LET r == stream_discriminant(Tail(src), snk \o <<Head(src)>>)
         IN  [source |-> r.source, sink |-> r.sink, panic |-> FALSE]
    ELSE [source |-> Tail(src), sink |-> snk, panic |-> TRUE]

----------------------------------------------------------------------------
(* fn add_default_field_values, one field per iteration of 'parse_field *)

\* line 681: the tokens of the field's type, up to `=`, `,` or the end
RECURSIVE field_type(_, _)
field_type(src, snk) ==
    IF src = <<>> \/ IsPunct(Head(src), "=") \/ IsPunct(Head(src), ",")
    THEN [source |-> src, sink |-> snk]
    ELSE field_type(Tail(src), snk \o <<Head(src)>>)

\* lines 647-658: the field's own default value, up to `,` or the end;
\* brk: the end of the input was reached (break 'parse_field)
RECURSIVE custom_default(_, _)
custom_default(src, snk) ==
    IF src = <<>>
    THEN [source |-> src, sink |-> snk, brk |-> TRUE]
    ELSE IF IsPunct(Head(src), ",")
    THEN [source |-> Tail(src), sink |-> snk \o <<Head(src)>>, brk |-> FALSE]
    ELSE custom_default(Tail(src), snk \o <<Head(src)>>)

\* lines 668-670 and 690-692: the injected default value
injected(skip, span) == IF ~skip THEN default(span) ELSE <<>>

----------------------------------------------------------------------------
(* fn auto_default as a step function on the record of its variables *)

State ==
    [args |-> args, input |-> input, pc |-> pc, source |-> source,
     sink |-> sink, compile_errors |-> compile_errors,
     item_kind |-> item_kind, item_ident_span |-> item_ident_span,
     source_item_fields |-> source_item_fields,
     source_variants |-> source_variants, sink_variants |-> sink_variants,
     is_skip |-> is_skip, variant_ident_span |-> variant_ident_span,
     caller |-> caller, fields |-> fields, input_fields |-> input_fields,
     output_fields |-> output_fields, is_skip_variant |-> is_skip_variant,
     field_is_skip |-> field_is_skip, field_ident_span |-> field_ident_span,
     output |-> output]

Becomes(s) ==
    /\ args' = s.args
    /\ input' = s.input
    /\ pc' = s.pc
    /\ source' = s.source
    /\ sink' = s.sink
    /\ compile_errors' = s.compile_errors
    /\ item_kind' = s.item_kind
    /\ item_ident_span' = s.item_ident_span
    /\ source_item_fields' = s.source_item_fields
    /\ source_variants' = s.source_variants
    /\ sink_variants' = s.sink_variants
    /\ is_skip' = s.is_skip
    /\ variant_ident_span' = s.variant_ident_span
    /\ caller' = s.caller
    /\ fields' = s.fields
    /\ input_fields' = s.input_fields
    /\ output_fields' = s.output_fields
    /\ is_skip_variant' = s.is_skip_variant
    /\ field_is_skip' = s.field_is_skip
    /\ field_ident_span' = s.field_ident_span
    /\ output' = s.output

StartsAs(s) ==
    /\ args = s.args
    /\ input = s.input
    /\ pc = s.pc
    /\ source = s.source
    /\ sink = s.sink
    /\ compile_errors = s.compile_errors
    /\ item_kind = s.item_kind
    /\ item_ident_span = s.item_ident_span
    /\ source_item_fields = s.source_item_fields
    /\ source_variants = s.source_variants
    /\ sink_variants = s.sink_variants
    /\ is_skip = s.is_skip
    /\ variant_ident_span = s.variant_ident_span
    /\ caller = s.caller
    /\ fields = s.fields
    /\ input_fields = s.input_fields
    /\ output_fields = s.output_fields
    /\ is_skip_variant = s.is_skip_variant
    /\ field_is_skip = s.field_is_skip
    /\ field_ident_span = s.field_ident_span
    /\ output = s.output

\* the state on entry to auto_default(a, i)
Entry(a, i) ==
    [args |-> a, input |-> i, pc |-> "start", source |-> <<>>,
     sink |-> <<>>, compile_errors |-> <<>>,
     item_kind |-> "-", item_ident_span |-> None,
     source_item_fields |-> <<>>,
     source_variants |-> <<>>, sink_variants |-> <<>>,
     is_skip |-> FALSE, variant_ident_span |-> None,
     caller |-> "-", fields |-> <<>>, input_fields |-> <<>>,
     output_fields |-> <<>>, is_skip_variant |-> FALSE,
     field_is_skip |-> FALSE, field_ident_span |-> None,
     output |-> <<>>]

\* DoCheckArgs with the usage error ending the run
DoCheckArgs_Fatal(s) ==
    IF s.args # <<>>
    THEN [s EXCEPT !.compile_errors = create_compile_error(Peek(s.args), MsgArgs),
                   !.output = create_compile_error(Peek(s.args), MsgArgs),
                   !.pc = "fatal"]
    ELSE [s EXCEPT !.source = s.input, !.pc = "attrs"]

\* lines 154-168
DoCheckArgs(s) ==
    [s EXCEPT !.compile_errors =
                  IF s.args # <<>>
                  THEN create_compile_error(Peek(s.args), MsgArgs)
                  ELSE <<>>,
              !.source = s.input,
              !.pc = "attrs"]

\* lines 170-178
DoContainerAttrs(s) ==
    LET Vis(r, v) ==
            [s EXCEPT !.source = v.source, !.sink = v.sink,
                      !.compile_errors = r.errors,
                      !.pc = IF r.panic THEN "panic" ELSE "keyword"]
        Attrs(r) == Vis(r, stream_vis(r.source, r.sink))
    IN  Attrs(stream_attrs(s.source, s.sink, s.compile_errors, FALSE))

IsKeyword(src) ==
    src # <<>> /\ (IsIdent(Head(src), "struct") \/ IsIdent(Head(src), "enum"))

\* lines 182-190
DoKeyword(s) ==
    [s EXCEPT !.source = Tail(s.source),
              !.sink = s.sink \o <<Head(s.source)>>,
              !.item_kind = IF Head(s.source).s = "struct" THEN "Struct" ELSE "Enum",
              !.pc = "ident"]

\* lines 191-197
DoNotStructOrEnum(s) ==
    LET errs == s.compile_errors \o create_compile_error(Peek(s.source), MsgKind)
    IN  [s EXCEPT !.source = Rest(s.source), !.compile_errors = errs,
                  !.output = errs, !.pc = "fatal"]

\* lines 202-203
DoItemIdent(s) ==
    LET r == stream_ident(s.source, s.sink)
    IN  [s EXCEPT !.source = r.source, !.sink = r.sink,
                  !.item_ident_span = r.span,
                  !.pc = IF r.span = None THEN "panic" ELSE "generics"]

\* line 214
DoGenericsToken(s) ==
    [s EXCEPT !.source = Tail(s.source), !.sink = s.sink \o <<Head(s.source)>>]

\* line 212
DoBodyFound(s) ==
    [s EXCEPT !.source = Tail(s.source), !.source_item_fields = Head(s.source),
              !.pc = "body"]

\* lines 216-224
DoMissingBody(s) ==
    LET errs == s.compile_errors \o CompileError(s.item_ident_span, MsgBody)
    IN  [s EXCEPT !.compile_errors = errs, !.output = errs, !.pc = "fatal"]

\* lines 229-235 and 610-613
DoStructBody(s) ==
    [s EXCEPT !.caller = "struct", !.fields = s.source_item_fields,
              !.input_fields = s.source_item_fields.ts, !.output_fields = <<>>,
              !.is_skip_variant = FALSE, !.pc = "parse_field"]

\* DoParseField without the check of lines 626-629 for the end of the list
DoParseField_EndMissed(s) ==
    LET Named(r, i) ==
            [s EXCEPT !.compile_errors = r.errors,
                      !.field_is_skip = r.is_skip \/ s.is_skip_variant,
                      !.field_ident_span = i.span,
                      !.input_fields = Rest(i.source),
                      !.output_fields = i.sink \o Peek(i.source),
                      !.pc = IF r.panic THEN "panic" ELSE "field_rest"]
        Vis(r, v) == Named(r, stream_ident(v.source, v.sink))
        Attrs(r) == Vis(r, stream_vis(r.source, r.sink))
    IN  Attrs(stream_attrs(s.input_fields, s.output_fields, s.compile_errors, TRUE))

\* DoParseField with the flag of the field before left set
DoParseField_FlagKept(s) ==
    LET Named(r, i) ==
            [s EXCEPT !.compile_errors = r.errors,
                      !.field_is_skip = r.is_skip \/ s.is_skip_variant \/ s.field_is_skip,
                      !.field_ident_span = i.span,
                      !.input_fields = Rest(i.source),
                      !.output_fields = i.sink \o Peek(i.source),
                      !.pc = IF r.panic THEN "panic"
                             ELSE IF i.span = None THEN "fields_end"
                             ELSE "field_rest"]
        Vis(r, v) == Named(r, stream_ident(v.source, v.sink))
        Attrs(r) == Vis(r, stream_vis(r.source, r.sink))
    IN  Attrs(stream_attrs(s.input_fields, s.output_fields, s.compile_errors, TRUE))

\* lines 618-633
DoParseField(s) ==
    LET Named(r, i) ==
            [s EXCEPT !.compile_errors = r.errors,
                      !.field_is_skip = r.is_skip \/ s.is_skip_variant,
                      !.field_ident_span = i.span,
                      !.input_fields = Rest(i.source),
                      !.output_fields = i.sink \o Peek(i.source),
                      !.pc = IF r.panic THEN "panic"
                             ELSE IF i.span = None THEN "fields_end"
                             ELSE "field_rest"]
        Vis(r, v) == Named(r, stream_ident(v.source, v.sink))
        Attrs(r) == Vis(r, stream_vis(r.source, r.sink))
    IN  Attrs(stream_attrs(s.input_fields, s.output_fields, s.compile_errors, TRUE))

\* the arm of the match of line 642 that ends the field
FieldArm(s) ==
    LET t == field_type(s.input_fields, <<>>).source
    IN  IF t = <<>> THEN "last"
        ELSE IF IsPunct(Head(t), "=") THEN "custom"
        ELSE "comma"

\* lines 647-658 (after the type's tokens, line 681)
DoFieldCustomDefault(s) ==
    LET t == field_type(s.input_fields, s.output_fields)
        r == custom_default(t.source, t.sink)
    IN  [s EXCEPT !.input_fields = r.source, !.output_fields = r.sink,
                  !.pc = IF r.brk THEN "fields_end" ELSE "parse_field"]

\* lines 663-676 (after the type's tokens, line 681)
DoFieldComma(s) ==
    LET t == field_type(s.input_fields, s.output_fields)
    IN  [s EXCEPT !.input_fields = Tail(t.source),
                  !.output_fields =
                      t.sink \o injected(s.field_is_skip, s.field_ident_span)
                             \o <<Head(t.source)>>,
                  !.pc = "parse_field"]

\* lines 689-695 (after the type's tokens, line 681)
DoFieldLast(s) ==
    LET t == field_type(s.input_fields, s.output_fields)
    IN  [s EXCEPT !.input_fields = t.source,
                  !.output_fields =
                      t.sink \o injected(s.field_is_skip, s.field_ident_span),
                  !.pc = "fields_end"]

\* lines 699-701: the group add_default_field_values returns
fields_group(s) == Group("Brace", s.output_fields, s.fields.sp)

\* lines 230-235: the struct's fields go to the sink
DoStructFieldsDone(s) ==
    [s EXCEPT !.sink = s.sink \o <<fields_group(s)>>, !.pc = "emit"]

\* lines 291-295: the variant's fields go to the variants' sink
DoVariantFieldsDone(s) ==
    [s EXCEPT !.sink_variants = s.sink_variants \o <<fields_group(s)>>,
              !.pc = "variant_tail"]

\* lines 238-239
DoEnumBody(s) ==
    [s EXCEPT !.source_variants = s.source_item_fields.ts,
              !.sink_variants = <<>>, !.pc = "variant"]

\* lines 243-269
DoVariantStart(s) ==
    LET Named(r, i) ==
            [s EXCEPT !.compile_errors = r.errors,
                      !.is_skip = r.is_skip,
                      !.variant_ident_span = i.span,
                      !.source_variants = i.source,
                      !.sink_variants = i.sink,
                      !.pc = IF r.panic THEN "panic"
                             ELSE IF i.span = None THEN "enum_end"
                             ELSE "variant_shape"]
        Vis(r, v) == Named(r, stream_ident(v.source, v.sink))
        Attrs(r) == Vis(r, stream_vis(r.source, r.sink))
    IN  Attrs(stream_attrs(s.source_variants, s.sink_variants, s.compile_errors, TRUE))

\* lines 272-282
disallow_skip(s) ==
    IF s.is_skip
    THEN s.compile_errors \o CompileError(s.variant_ident_span, MsgVariant)
    ELSE s.compile_errors

\* the arm of the match of line 284
VariantArm(s) ==
    LET p == s.source_variants
    IN  IF p = <<>> THEN "last"
        ELSE IF IsGroup(Head(p), "Brace") THEN "named"
        ELSE IF IsGroup(Head(p), "Parenthesis") THEN "unnamed"
        ELSE IF IsPunct(Head(p), ",") \/ IsPunct(Head(p), "=") THEN "unit"
        ELSE "unreachable"

\* lines 286-295 and 610-613
DoVariantNamed(s) ==
    [s EXCEPT !.source_variants = Tail(s.source_variants),
              !.caller = "enum", !.fields = Head(s.source_variants),
              !.input_fields = Head(s.source_variants).ts,
              !.output_fields = <<>>,
              !.is_skip_variant = s.is_skip, !.pc = "parse_field"]

\* lines 303-311
DoVariantUnnamed(s) ==
    [s EXCEPT !.compile_errors = disallow_skip(s),
              !.source_variants = Tail(s.source_variants),
              !.sink_variants = s.sink_variants \o <<Head(s.source_variants)>>,
              !.pc = "variant_tail"]

\* lines 320-323
DoVariantUnit(s) ==
    [s EXCEPT !.compile_errors = disallow_skip(s), !.pc = "variant_tail"]

\* DoVariantLast without the call of disallow_skip of line 331
DoVariantLast_Unchecked(s) == [s EXCEPT !.pc = "enum_end"]

\* lines 330-333
DoVariantLast(s) ==
    [s EXCEPT !.compile_errors = disallow_skip(s), !.pc = "enum_end"]

\* line 334
DoVariantUnreachable(s) == [s EXCEPT !.pc = "panic"]

\* lines 297-300, 313-316 and 324-327
DoVariantTail(s) ==
    LET r == stream_enum_variant_discriminant_and_comma(s.source_variants,
                                                        s.sink_variants)
    IN  [s EXCEPT !.source_variants = r.source, !.sink_variants = r.sink,
                  !.pc = IF r.panic THEN "panic" ELSE "variant"]

\* lines 338-340
DoEnumEnd(s) ==
    [s EXCEPT !.sink = s.sink \o <<Group(s.source_item_fields.s, s.sink_variants,
                                         s.source_item_fields.sp)>>,
              !.pc = "emit"]

\* lines 344-346
DoReturn(s) ==
    [s EXCEPT !.sink = s.sink \o s.compile_errors,
              !.output = s.sink \o s.compile_errors,
              !.pc = "done"]

\* the step auto_default takes in state s
Step(s) ==
    CASE s.pc = "start" -> DoCheckArgs(s)
      [] s.pc = "attrs" -> DoContainerAttrs(s)
      [] s.pc = "keyword" /\ IsKeyword(s.source) -> DoKeyword(s)
      [] s.pc = "keyword" /\ ~IsKeyword(s.source) -> DoNotStructOrEnum(s)
      [] s.pc = "ident" -> DoItemIdent(s)
      [] s.pc = "generics" /\ s.source = <<>> -> DoMissingBody(s)
      [] s.pc = "generics" /\ s.source # <<>> /\ IsGroup(Head(s.source), "Brace")
            -> DoBodyFound(s)
      [] s.pc = "generics" /\ s.source # <<>> /\ ~IsGroup(Head(s.source), "Brace")
            -> DoGenericsToken(s)
      [] s.pc = "body" /\ s.item_kind = "Struct" -> DoStructBody(s)
      [] s.pc = "body" /\ s.item_kind = "Enum" -> DoEnumBody(s)
      [] s.pc = "parse_field" -> DoParseField(s)
      [] s.pc = "field_rest" /\ FieldArm(s) = "custom" -> DoFieldCustomDefault(s)
      [] s.pc = "field_rest" /\ FieldArm(s) = "comma" -> DoFieldComma(s)
      [] s.pc = "field_rest" /\ FieldArm(s) = "last" -> DoFieldLast(s)
      [] s.pc = "fields_end" /\ s.caller = "struct" -> DoStructFieldsDone(s)
      [] s.pc = "fields_end" /\ s.caller = "enum" -> DoVariantFieldsDone(s)
      [] s.pc = "variant" -> DoVariantStart(s)
      [] s.pc = "variant_shape" /\ VariantArm(s) = "named" -> DoVariantNamed(s)
      [] s.pc = "variant_shape" /\ VariantArm(s) = "unnamed" -> DoVariantUnnamed(s)
      [] s.pc = "variant_shape" /\ VariantArm(s) = "unit" -> DoVariantUnit(s)
      [] s.pc = "variant_shape" /\ VariantArm(s) = "last" -> DoVariantLast(s)
      [] s.pc = "variant_shape" /\ VariantArm(s) = "unreachable"
            -> DoVariantUnreachable(s)
      [] s.pc = "variant_tail" -> DoVariantTail(s)
      [] s.pc = "enum_end" -> DoEnumEnd(s)
      [] s.pc = "emit" -> DoReturn(s)
      [] OTHER -> s

Returned(s) == s.pc \in {"done", "fatal", "panic"}

\* auto_default(a, i) run to its return (or abort)
RECURSIVE Run(_)
Run(s) == IF Returned(s) THEN s ELSE Run(Step(s))

auto_default(a, i) == Run(Entry(a, i))

----------------------------------------------------------------------------
(* The inputs: items the compiler can hand to the macro.  An attribute     *)
(* macro receives an item that parsed as Rust, so every attribute is `#`   *)
(* and a bracket group holding a path and at most one delimited group or   *)
(* `= expr`, every field is `name: Type [= expr]`, and so on.              *)

MaxAttrs == 3
MaxFields == 2
MaxVariants == 2

I(s) == Ident(s, call_site)

P(c) == Punct(c, "Alone", call_site)

L(s) == Literal(s, call_site)

G(d, ts) == Group(d, ts, call_site)

RECURSIVE Flatten(_)
Flatten(ss) == IF ss = <<>> THEN <<>> ELSE Head(ss) \o Flatten(Tail(ss))

RECURSIVE Size(_)
Size(ts) == IF ts = <<>> THEN 0 ELSE 1 + Size(Head(ts).ts) + Size(Tail(ts))

\* the tokens ts with the spans n, n+1, ... in source order
RECURSIVE Number(_, _)
Number(ts, n) ==
    IF ts = <<>> THEN <<>>
    ELSE LET h == Head(ts)
         IN  <<[h EXCEPT !.sp = n, !.ts = Number(h.ts, n + 1)]>>
             \o Number(Tail(ts), n + 1 + Size(h.ts))

SeqsUpTo(S, n) == UNION {[1..k -> S] : k \in 0..n}

\* the malformed `auto_default` attributes of tests/compile_fail/skip_invalid.rs,
\* and `auto_default = "x"` and `auto_default(1)`
MalformedKinds == {"bare", "brace", "empty", "wrong", "lit", "extra", "eq"}

AttrToks(kind) ==
    LET inner ==
          CASE kind = "other" -> <<I("derive"), G("Parenthesis", <<I("Debug")>>)>>
            [] kind = "skip" -> <<I("auto_default"), G("Parenthesis", <<I("skip")>>)>>
            [] kind = "bare" -> <<I("auto_default")>>
            [] kind = "brace" -> <<I("auto_default"), G("Brace", <<I("skip")>>)>>
            [] kind = "empty" -> <<I("auto_default"), G("Parenthesis", <<>>)>>
            [] kind = "wrong" -> <<I("auto_default"), G("Parenthesis", <<I("not_skip")>>)>>
            [] kind = "lit" -> <<I("auto_default"), G("Parenthesis", <<L("1")>>)>>
            [] kind = "extra" -> <<I("auto_default"), G("Parenthesis", <<I("skip"), I("a")>>)>>
            [] kind = "eq" -> <<I("auto_default"), P("="), L("x")>>
    IN  <<P("#"), G("Bracket", inner)>>

AttrsToks(kinds) == Flatten([i \in 1..Len(kinds) |-> AttrToks(kinds[i])])

VisToks(vis) ==
    CASE vis = "none" -> <<>>
      [] vis = "pub" -> <<I("pub")>>
      [] vis = "pub_crate" -> <<I("pub"), G("Parenthesis", <<I("crate")>>)>>
      [] vis = "pub_in" -> <<I("pub"), G("Parenthesis", <<I("in"), I("crate")>>)>>

\* u8 | Map<K, V> | It<Item = u8>
TypeToks(ty) ==
    CASE ty = "plain" -> <<I("u8")>>
      [] ty = "generic" -> <<I("Map"), P("<"), I("K"), P(","), I("V"), P(">")>>
      [] ty = "assoc" -> <<I("It"), P("<"), I("Item"), P("="), I("u8"), P(">")>>

\* nothing | = 1 | = f::<A, B>()
ExprToks(e) ==
    CASE e = "none" -> <<>>
      [] e = "lit" -> <<P("="), L("1")>>
      [] e = "call" -> <<P("="), I("f"), Punct(":", "Joint", call_site), P(":"),
                         P("<"), I("A"), P(","), I("B"), P(">"),
                         G("Parenthesis", <<>>)>>

Comma(b) == IF b THEN <<P(",")>> ELSE <<>>

Names == <<"a", "b", "c", "d">>

\* a field [attrs, vis, ty, init], the i-th of its list
FieldToks(f, i, comma) ==
    AttrsToks(f.attrs) \o VisToks(f.vis) \o <<I(Names[i]), P(":")>>
        \o TypeToks(f.ty) \o ExprToks(f.init) \o Comma(comma)

\* a field list; trail: the last field has a trailing comma
FieldsToks(fs, trail) ==
    Flatten([i \in 1..Len(fs) |-> FieldToks(fs[i], i, i < Len(fs) \/ trail)])

VariantNames == <<"A", "B", "C", "D">>

\* a variant [attrs, vis, shape, fs, ftrail, disc], the i-th of its list
VariantToks(v, i, comma) ==
    AttrsToks(v.attrs) \o VisToks(v.vis) \o <<I(VariantNames[i])>>
        \o (CASE v.shape = "unit" -> <<>>
              [] v.shape = "unnamed" -> <<G("Parenthesis", <<I("u32")>>)>>
              [] v.shape = "named" -> <<G("Brace", FieldsToks(v.fs, v.ftrail))>>)
        \o ExprToks(v.disc) \o Comma(comma)

VariantsToks(vs, trail) ==
    Flatten([i \in 1..Len(vs) |-> VariantToks(vs[i], i, i < Len(vs) \/ trail)])

\* nothing | <T> | <const N: usize = { 0 }> | <T> where T: Copy
GenericsToks(gen) ==
    CASE gen = "none" -> <<>>
      [] gen = "param" -> <<P("<"), I("T"), P(">")>>
      [] gen = "const" -> <<P("<"), I("const"), I("N"), P(":"), I("usize"), P("="),
                            G("Brace", <<L("0")>>), P(">")>>
      [] gen = "where" -> <<P("<"), I("T"), P(">"), I("where"), I("T"), P(":"),
                            I("Copy")>>

\* an item [attrs, vis, kw, gen, tail, fs, vs, trail]
ItemToks(d) ==
    AttrsToks(d.attrs) \o VisToks(d.vis) \o
    (CASE d.kw = "fn" -> <<I("fn"), I("f"), G("Parenthesis", <<>>), G("Brace", <<>>)>>
       [] d.kw = "struct" ->
            <<I("struct"), I("X")>> \o GenericsToks(d.gen) \o
            (CASE d.tail = "braces" -> <<G("Brace", FieldsToks(d.fs, d.trail))>>
               [] d.tail = "unit" -> <<P(";")>>
               [] d.tail = "tuple" -> <<G("Parenthesis", <<I("u8")>>), P(";")>>)
       [] d.kw = "enum" ->
            <<I("enum"), I("E")>> \o GenericsToks(d.gen) \o
            <<G("Brace", VariantsToks(d.vs, d.trail))>>)

Field(attrs, vis, ty, init) == [attrs |-> attrs, vis |-> vis, ty |-> ty, init |-> init]

Variant(attrs, vis, shape, fs, ftrail, disc) ==
    [attrs |-> attrs, vis |-> vis, shape |-> shape, fs |-> fs, ftrail |-> ftrail,
     disc |-> disc]

Item(attrs, vis, kw, gen, tail, fs, vs, trail) ==
    [attrs |-> attrs, vis |-> vis, kw |-> kw, gen |-> gen, tail |-> tail,
     fs |-> fs, vs |-> vs, trail |-> trail]

Struct(attrs, fs, trail) == Item(attrs, "none", "struct", "none", "braces", fs, <<>>, trail)

Enum(attrs, vs, trail) == Item(attrs, "none", "enum", "none", "braces", <<>>, vs, trail)

PlainField == Field(<<>>, "none", "plain", "none")

\* attribute lists: up to MaxAttrs of a foreign attribute and a valid skip,
\* or of a valid skip and one malformed kind, and the three kinds together
AttrLists ==
    SeqsUpTo({"other", "skip"}, MaxAttrs)
    \cup UNION {SeqsUpTo({"skip", m}, MaxAttrs) : m \in MalformedKinds}
    \cup {<<"other", m>> : m \in MalformedKinds}
    \cup {<<m, "other", "skip">> : m \in MalformedKinds}

\* fields of every type and default-value shape, with and without a skip
FieldKinds ==
    {Field(<<>>, "none", x[1], x[2]) :
        x \in {<<"plain", "none">>, <<"plain", "lit">>, <<"generic", "none">>,
               <<"generic", "lit">>, <<"assoc", "none">>, <<"plain", "call">>}}
    \cup {Field(<<"skip">>, "none", ty, "none") : ty \in {"plain", "generic"}}
    \cup {Field(<<"skip">>, "none", "plain", "lit")}
    \cup {Field(<<"other">>, "pub_crate", "plain", "lit")}

\* the fields of a named variant
VariantFieldKinds ==
    {Field(<<>>, "none", "plain", "none"), Field(<<>>, "none", "plain", "lit"),
     Field(<<>>, "none", "generic", "none"), Field(<<"skip">>, "none", "plain", "none"),
     Field(<<"other">>, "pub", "plain", "none")}

VariantKinds ==
    {Variant(a, "none", sh, IF sh = "named" THEN <<PlainField>> ELSE <<>>, FALSE,
             "none") :
        a \in {<<>>, <<"skip">>}, sh \in {"unit", "unnamed", "named"}}
    \cup {Variant(a, "none", "unit", <<>>, FALSE, "lit") : a \in {<<>>, <<"skip">>}}
    \cup {Variant(<<>>, "none", "unit", <<>>, FALSE, "call"),
          Variant(<<>>, "none", "named", <<PlainField>>, FALSE, "call"),
          Variant(<<"skip">>, "none", "unnamed", <<>>, FALSE, "lit")}

\* annotated targets: the item, a field, a variant of each shape
AttrItems ==
    UNION {
      { Struct(a, <<PlainField>>, TRUE),
        Enum(a, <<Variant(<<>>, "none", "named", <<PlainField>>, TRUE, "none")>>, TRUE),
        Struct(<<>>, <<Field(a, "none", "plain", "none"), PlainField>>, FALSE),
        Struct(<<>>, <<Field(a, "none", "plain", "lit")>>, TRUE),
        Enum(<<>>, <<Variant(a, "none", "unit", <<>>, FALSE, "none"),
                     Variant(<<>>, "none", "named", <<PlainField>>, FALSE, "none")>>,
             TRUE),
        Enum(<<>>, <<Variant(a, "none", "unit", <<>>, FALSE, "none")>>, FALSE),
        Enum(<<>>, <<Variant(a, "none", "unnamed", <<>>, FALSE, "lit")>>, TRUE),
        Enum(<<>>, <<Variant(a, "none", "named",
                             <<PlainField, Field(<<"skip">>, "none", "plain", "none")>>,
                             FALSE, "none")>>, FALSE) }
      : a \in AttrLists }

\* structs of up to MaxFields fields
FieldItems ==
    {Struct(<<>>, fs, tr) : fs \in SeqsUpTo(FieldKinds, MaxFields), tr \in BOOLEAN}

\* enums of one named variant of up to MaxFields fields, and a sibling
NamedItems ==
    {Enum(<<>>, <<Variant(a, "none", "named", fs, tr, "none"),
                  Variant(<<"other">>, "pub", "named", <<PlainField>>, FALSE, d)>>, tr) :
        a \in {<<>>, <<"skip">>}, fs \in SeqsUpTo(VariantFieldKinds, MaxFields),
        tr \in BOOLEAN, d \in {"lit", "call"}}

\* enums of up to MaxVariants variants
VariantItems ==
    {Enum(<<>>, vs, tr) : vs \in SeqsUpTo(VariantKinds, MaxVariants), tr \in BOOLEAN}

\* headers: attributes, visibility, keyword, generics and what follows them
HeaderItems ==
    {Item(a, v, "struct", g, tl,
          <<Field(<<"skip", "skip">>, "none", "plain", "none"), PlainField>>, <<>>, TRUE) :
        a \in {<<>>, <<"other">>, <<"skip">>}, v \in {"none", "pub", "pub_crate", "pub_in"},
        g \in {"none", "param", "const", "where"}, tl \in {"braces", "unit", "tuple"}}
    \cup
    {Item(a, v, "enum", g, "braces", <<>>,
          <<Variant(<<"skip">>, "none", "unit", <<>>, FALSE, "none"),
            Variant(<<>>, "none", "named", <<PlainField>>, FALSE, "none")>>, FALSE) :
        a \in {<<>>, <<"other">>, <<"skip">>}, v \in {"none", "pub", "pub_crate", "pub_in"},
        g \in {"none", "param", "const", "where"}}
    \cup
    {Item(a, v, "fn", "none", "braces", <<>>, <<>>, FALSE) :
        a \in {<<>>, <<"other">>, <<"skip">>, <<"bare">>, <<"skip", "extra">>},
        v \in {"none", "pub"}}
    \cup
    {Item(a, v, kw, g, "braces", <<>>, <<>>, FALSE) :
        a \in {<<>>, <<"other">>}, v \in {"none", "pub", "pub_crate", "pub_in"},
        kw \in {"struct", "enum"}, g \in {"none", "param", "const", "where"}}
    \cup
    {Item(<<>>, v, "enum", "none", "braces", <<>>, vs, tr) :
        v \in {"none", "pub", "pub_crate", "pub_in"},
        vs \in SeqsUpTo({Variant(<<>>, "none", "named", <<>>, FALSE, "none"),
                         Variant(<<"other">>, "pub", "named", <<>>, FALSE, "lit")}, 2)
              \ {<<>>},
        tr \in BOOLEAN}

\* the attribute's arguments: #[auto_default], #[auto_default(x)], #[auto_default(x, y)]
ArgsSet == {<<>>, <<I("x")>>, <<I("x"), P(","), I("y")>>}

Cases ==
    {<<a, ItemToks(d)>> : a \in ArgsSet, d \in HeaderItems}
    \cup {<<(<<>>), ItemToks(d)>> :
            d \in AttrItems \cup FieldItems \cup NamedItems \cup VariantItems}

\* the states on entry, the arguments' spans before the item's
Entries == {Entry(Number(c[1], 1), Number(c[2], 1 + Size(c[1]))) : c \in Cases}

----------------------------------------------------------------------------
(* The state machine *)

Init == \E s \in Entries : StartsAs(s)

CheckArgs == pc = "start" /\ (\E n \in {DoCheckArgs(State)} : Becomes(n))

ContainerAttrs == pc = "attrs" /\ (\E n \in {DoContainerAttrs(State)} : Becomes(n))

Keyword == pc = "keyword" /\ IsKeyword(source) /\ (\E n \in {DoKeyword(State)} : Becomes(n))

NotStructOrEnum ==
    pc = "keyword" /\ ~IsKeyword(source) /\ (\E n \in {DoNotStructOrEnum(State)} : Becomes(n))

ItemIdent == pc = "ident" /\ (\E n \in {DoItemIdent(State)} : Becomes(n))

GenericsToken ==
    /\ pc = "generics" /\ source # <<>> /\ ~IsGroup(Head(source), "Brace")
    /\ (\E n \in {DoGenericsToken(State)} : Becomes(n))

BodyFound ==
    /\ pc = "generics" /\ source # <<>> /\ IsGroup(Head(source), "Brace")
    /\ (\E n \in {DoBodyFound(State)} : Becomes(n))

MissingBody == pc = "generics" /\ source = <<>> /\ (\E n \in {DoMissingBody(State)} : Becomes(n))

StructBody == pc = "body" /\ item_kind = "Struct" /\ (\E n \in {DoStructBody(State)} : Becomes(n))

EnumBody == pc = "body" /\ item_kind = "Enum" /\ (\E n \in {DoEnumBody(State)} : Becomes(n))

ParseField == pc = "parse_field" /\ (\E n \in {DoParseField(State)} : Becomes(n))

FieldCustomDefault ==
    pc = "field_rest" /\ FieldArm(State) = "custom" /\ (\E n \in {DoFieldCustomDefault(State)} : Becomes(n))

FieldComma ==
    pc = "field_rest" /\ FieldArm(State) = "comma" /\ (\E n \in {DoFieldComma(State)} : Becomes(n))

FieldLast ==
    pc = "field_rest" /\ FieldArm(State) = "last" /\ (\E n \in {DoFieldLast(State)} : Becomes(n))

StructFieldsDone ==
    pc = "fields_end" /\ caller = "struct" /\ (\E n \in {DoStructFieldsDone(State)} : Becomes(n))

VariantFieldsDone ==
    pc = "fields_end" /\ caller = "enum" /\ (\E n \in {DoVariantFieldsDone(State)} : Becomes(n))

VariantStart == pc = "variant" /\ (\E n \in {DoVariantStart(State)} : Becomes(n))

VariantNamed ==
    pc = "variant_shape" /\ VariantArm(State) = "named" /\ (\E n \in {DoVariantNamed(State)} : Becomes(n))

VariantUnnamed ==
    /\ pc = "variant_shape" /\ VariantArm(State) = "unnamed"
    /\ (\E n \in {DoVariantUnnamed(State)} : Becomes(n))

VariantUnit ==
    pc = "variant_shape" /\ VariantArm(State) = "unit" /\ (\E n \in {DoVariantUnit(State)} : Becomes(n))

VariantLast ==
    pc = "variant_shape" /\ VariantArm(State) = "last" /\ (\E n \in {DoVariantLast(State)} : Becomes(n))

VariantUnreachable ==
    /\ pc = "variant_shape" /\ VariantArm(State) = "unreachable"
    /\ (\E n \in {DoVariantUnreachable(State)} : Becomes(n))

VariantTail == pc = "variant_tail" /\ (\E n \in {DoVariantTail(State)} : Becomes(n))

EnumEnd == pc = "enum_end" /\ (\E n \in {DoEnumEnd(State)} : Becomes(n))

Return == pc = "emit" /\ (\E n \in {DoReturn(State)} : Becomes(n))

Next ==
    \/ CheckArgs
    \/ ContainerAttrs
    \/ Keyword
    \/ NotStructOrEnum
    \/ ItemIdent
    \/ GenericsToken
    \/ BodyFound
    \/ MissingBody
    \/ StructBody
    \/ EnumBody
    \/ ParseField
    \/ FieldCustomDefault
    \/ FieldComma
    \/ FieldLast
    \/ StructFieldsDone
    \/ VariantFieldsDone
    \/ VariantStart
    \/ VariantNamed
    \/ VariantUnnamed
    \/ VariantUnit
    \/ VariantLast
    \/ VariantUnreachable
    \/ VariantTail
    \/ EnumEnd
    \/ Return

Spec == Init /\ [][Next]_vars

----------------------------------------------------------------------------
(* The declaration as the Rust grammar reads it.  The properties below are  *)
(* stated against this reading of the input: fields and variants end at a  *)
(* comma outside angle brackets, and a field has a default value when an   *)
(* `=` follows its type outside angle brackets.                            *)

Min(S) == CHOOSE x \in S : \A y \in S : x <= y

\* the first position of token t in o, 0 when it is not there
IdxOf(o, t) ==
    IF \E i \in 1..Len(o) : o[i] = t THEN Min({i \in 1..Len(o) : o[i] = t}) ELSE 0

\* every token of the tree ts, groups before their contents
RECURSIVE Flat(_)
Flat(ts) ==
    IF ts = <<>> THEN <<>>
    ELSE <<Head(ts)>> \o Flat(Head(ts).ts) \o Flat(Tail(ts))

Spans(ts) == {Flat(ts)[i].sp : i \in 1..Len(Flat(ts))}

Angle(t) == IF IsPunct(t, "<") THEN 1 ELSE IF IsPunct(t, ">") THEN -1 ELSE 0

\* the comma-separated elements of a list: [toks, term], term the comma or <<>>
RECURSIVE Elements(_, _, _)
Elements(ts, depth, cur) ==
    IF ts = <<>>
    THEN IF cur = <<>> THEN <<>> ELSE <<[toks |-> cur, term |-> <<>>]>>
    ELSE IF IsPunct(Head(ts), ",") /\ depth = 0
    THEN <<[toks |-> cur, term |-> <<Head(ts)>>]>> \o Elements(Tail(ts), 0, <<>>)
    ELSE Elements(Tail(ts), depth + Angle(Head(ts)), cur \o <<Head(ts)>>)

\* the bracket groups of the attributes an element starts with
RECURSIVE LeadingAttrs(_)
LeadingAttrs(ts) ==
    IF Len(ts) >= 2 /\ IsPunct(ts[1], "#") /\ IsGroup(ts[2], "Bracket")
    THEN <<ts[2]>> \o LeadingAttrs(SubSeq(ts, 3, Len(ts)))
    ELSE <<>>

\* what follows the attributes and the visibility of an element
AfterVis(ts) ==
    LET a == SubSeq(ts, 2 * Len(LeadingAttrs(ts)) + 1, Len(ts))
    IN  IF a # <<>> /\ IsIdent(a[1], "pub")
        THEN IF Len(a) >= 2 /\ IsGroup(a[2], "Parenthesis")
             THEN SubSeq(a, 3, Len(a)) ELSE Tail(a)
        ELSE a

\* what follows the attributes of an element
AfterAttrs(ts) == SubSeq(ts, 2 * Len(LeadingAttrs(ts)) + 1, Len(ts))

IsAutoDefault(attr) == attr.ts # <<>> /\ IsIdent(attr.ts[1], "auto_default")

\* #[auto_default(skip)]
IsValidSkip(attr) ==
    /\ Len(attr.ts) = 2
    /\ IsIdent(attr.ts[1], "auto_default")
    /\ IsGroup(attr.ts[2], "Parenthesis")
    /\ Len(attr.ts[2].ts) = 1
    /\ IsIdent(attr.ts[2].ts[1], "skip")

IsMalformed(attr) == IsAutoDefault(attr) /\ ~IsValidSkip(attr)

\* the valid skip annotations among attrs, in order
ValidSkips(attrs) == SelectSeq(attrs, IsValidSkip)

\* the span of the `skip` identifier of a valid skip annotation
SkipSpan(attr) == attr.ts[2].ts[1].sp

RECURSIVE HasTopEq(_, _)
HasTopEq(ts, depth) ==
    IF ts = <<>> THEN FALSE
    ELSE IF IsPunct(Head(ts), "=") /\ depth = 0 THEN TRUE
    ELSE HasTopEq(Tail(ts), depth + Angle(Head(ts)))

\* a field: its attributes, name, terminating comma (or <<>>), whether it has
\* a default value, and its tokens from the visibility on
FieldOf(e) ==
    [attrs |-> LeadingAttrs(e.toks),
     name |-> Head(AfterVis(e.toks)),
     term |-> e.term,
     init |-> HasTopEq(AfterVis(e.toks), 0),
     body |-> AfterAttrs(e.toks) \o e.term,
     toks |-> e.toks \o e.term]

\* the fields of a field list
FieldsOf(group) ==
    LET es == Elements(group.ts, 0, <<>>)
    IN  [i \in 1..Len(es) |-> FieldOf(es[i])]

\* a variant: its attributes, name, shape, payload group, terminating comma
VariantOf(e) ==
    LET a == AfterVis(e.toks)
        payload == IF Len(a) >= 2 /\ a[2].k = "group" THEN <<a[2]>> ELSE <<>>
    IN  [attrs |-> LeadingAttrs(e.toks),
         name |-> Head(a),
         shape |-> IF payload = <<>> THEN "unit"
                   ELSE IF IsGroup(payload[1], "Brace") THEN "named" ELSE "unnamed",
         payload |-> payload,
         term |-> e.term,
         body |-> AfterAttrs(e.toks) \o e.term,
         toks |-> e.toks \o e.term]

VariantsOf(group) ==
    LET es == Elements(group.ts, 0, <<>>)
    IN  [i \in 1..Len(es) |-> VariantOf(es[i])]

\* the item's keyword and body
ItemKeyword ==
    LET a == AfterVis(input) IN IF a = <<>> THEN "" ELSE a[1].s

ItemAttrs == LeadingAttrs(input)

ItemBody == input[Len(input)]

\* the rewrite went through the item's body and returned
Rewritten == pc = "done" /\ source_item_fields = ItemBody

\* the field lists of the item: [group, skip], skip telling whether the
\* enclosing variant carries a valid skip annotation
FieldLists ==
    IF ItemKeyword = "struct"
    THEN {[group |-> ItemBody, skip |-> FALSE]}
    ELSE {[group |-> v.payload[1], skip |-> ValidSkips(v.attrs) # <<>>] :
            v \in {w \in {VariantsOf(ItemBody)[i] : i \in 1..Len(VariantsOf(ItemBody))} :
                      w.shape = "named"}}

\* the group with the span of input group g in the output
OutGroup(g) ==
    LET f == Flat(output)
    IN  f[Min({i \in 1..Len(f) : f[i].k = "group" /\ f[i].s = g.s /\ f[i].sp = g.sp})]

\* the positions in o at which an injected default value starts
Injected(o) == {i \in 1..(Len(o) - 13) : SubSeq(o, i, i + 13) = default(o[i + 1].sp)}

\* the end of field f in o: the position of its comma, or one past the end
EndOf(o, f) == IF f.term = <<>> THEN Len(o) + 1 ELSE IdxOf(o, f.term[1])

\* the positions in o at which a diagnostic starts
Diagnostics(o) ==
    {i \in 1..(Len(o) - 7) :
        /\ o[i + 7].k = "group" /\ Len(o[i + 7].ts) = 1
        /\ SubSeq(o, i, i + 7) = CompileError(o[i].sp, o[i + 7].ts[1].s)}

\* the number of diagnostics of the output with message m anchored in S
Reported(m, S) ==
    Cardinality({i \in Diagnostics(output) :
                    output[i + 7].ts[1].s = m /\ output[i].sp \in S})

Messages ==
    {MsgArgs, MsgKind, MsgBody, MsgVariant, MsgDuplicate, MsgContainer,
     MsgGroup, MsgAfter, MsgSkip, MsgEmpty, MsgExtra}

----------------------------------------------------------------------------
(* C1..C10 *)

SeqSet(s) == {s[i] : i \in 1..Len(s)}

\* field f of list fl is without a default value and not skipped
Eligible(fl, f) == ~f.init /\ ValidSkips(f.attrs) = <<>> /\ ~fl.skip

\* exactly one injected default value lies between the name of f and its
\* end, and it ends right before that end
InjectedBeforeEnd(o, f) ==
    LET from == IdxOf(o, f.name)
        to == EndOf(o, f)
    IN  /\ from > 0 /\ to > from
        /\ Cardinality({i \in Injected(o) : from < i /\ i < to}) = 1
        /\ (to - 14) \in Injected(o)
        /\ o[to - 13].sp = f.name.sp

\* C1: every field without a default value that is not skipped gets exactly one
\* injected default value, right before its terminating comma or the end of
\* the list (also when its type has commas between angle brackets)
C1_InjectedOnce ==
    Rewritten =>
        \A fl \in FieldLists : \A f \in SeqSet(FieldsOf(fl.group)) :
            Eligible(fl, f) => InjectedBeforeEnd(OutGroup(fl.group).ts, f)

\* C2: a field with a default value of its own is emitted, from its name to
\* its terminating comma or the end of the list, exactly as written
C2_CustomDefaultKept ==
    Rewritten =>
        \A fl \in FieldLists : \A f \in SeqSet(FieldsOf(fl.group)) :
            f.init =>
                LET o == OutGroup(fl.group).ts
                    from == IdxOf(o, Head(f.body))
                IN  /\ from > 0
                    /\ from + Len(f.body) - 1 <= Len(o)
                    /\ SubSeq(o, from, from + Len(f.body) - 1) = f.body
                    /\ (f.term = <<>> => from + Len(f.body) - 1 = Len(o))

\* C3: a field with a valid skip annotation and no default value gets no
\* injected default value between its name and its terminating comma or the
\* end of the list, and the annotation is not in the output
C3_SkippedFieldBare ==
    Rewritten =>
        \A fl \in FieldLists : \A f \in SeqSet(FieldsOf(fl.group)) :
            (ValidSkips(f.attrs) # <<>> /\ ~f.init) =>
                LET o == OutGroup(fl.group).ts
                    from == IdxOf(o, f.name)
                    to == EndOf(o, f)
                IN  /\ from > 0 /\ to > from
                    /\ {i \in Injected(o) : from < i /\ i < to} = {}
                    /\ \A a \in SeqSet(ValidSkips(f.attrs)) : a.sp \notin Spans(o)

\* an `=` stands in field f before any comma: the field shows a default value
\* to a reader of tokens
ShowsDefault(f) ==
    \E i \in 1..Len(f.body) :
        /\ IsPunct(f.body[i], "=")
        /\ \A j \in 1..(i - 1) : ~IsPunct(f.body[j], ",")

\* an injected default value of o carries the span of field f's name
InjectedFor(o, f) == \E i \in Injected(o) : o[i + 1].sp = f.name.sp

NamedVariants ==
    IF ItemKeyword = "enum"
    THEN {v \in SeqSet(VariantsOf(ItemBody)) : v.shape = "named"}
    ELSE {}

\* no annotation of variant v or of its fields is malformed or repeated
PlainlyAnnotated(v) ==
    /\ Len(ValidSkips(v.attrs)) <= 1
    /\ \A a \in SeqSet(v.attrs) : ~IsMalformed(a)
    /\ \A f \in SeqSet(FieldsOf(v.payload[1])) :
          /\ Len(ValidSkips(f.attrs)) <= 1
          /\ \A a \in SeqSet(f.attrs) : ~IsMalformed(a)

\* C4: the skip flag used for a field is its own valid skip annotation or
\* its variant's, and nothing else: a skipped variant gets no injected
\* default value at all, a field gets one exactly when neither it nor its
\* variant is skipped and it shows no default value, whatever its siblings
\* and the other variants carry, and a skipped field in a skipped variant is
\* reported by no diagnostic
C4_SkipIsOwnOrVariant ==
    /\ (pc = "field_rest" /\ source_item_fields = ItemBody) =>
          \A fl \in FieldLists : fl.group = fields =>
              \A f \in SeqSet(FieldsOf(fl.group)) :
                  f.name.sp = field_ident_span =>
                      /\ is_skip_variant = fl.skip
                      /\ field_is_skip = (ValidSkips(f.attrs) # <<>> \/ fl.skip)
    /\ Rewritten =>
          /\ \A fl \in FieldLists :
                LET o == OutGroup(fl.group).ts
                IN  /\ fl.skip => Injected(o) = {}
                    /\ \A f \in SeqSet(FieldsOf(fl.group)) :
                          InjectedFor(o, f) <=>
                              (~ShowsDefault(f) /\ ValidSkips(f.attrs) = <<>> /\ ~fl.skip)
          /\ \A v \in NamedVariants :
                PlainlyAnnotated(v) =>
                    \A m \in Messages : Reported(m, Spans(v.toks)) = 0

\* a skipped field inside a skipped variant, beside a field and a variant
\* that are not skipped and got their default value
C4_Witness ==
    /\ Rewritten
    /\ \E fl \in FieldLists :
          /\ fl.skip
          /\ \E f \in SeqSet(FieldsOf(fl.group)) : ValidSkips(f.attrs) # <<>>
          /\ \E f \in SeqSet(FieldsOf(fl.group)) :
                ValidSkips(f.attrs) = <<>> /\ ~ShowsDefault(f)
    /\ \E fl \in FieldLists :
          ~fl.skip /\ Injected(OutGroup(fl.group).ts) # {}

\* the tree ts without the injected default values and the diagnostics
RECURSIVE Unrewritten(_)
Unrewritten(ts) ==
    IF ts = <<>> THEN <<>>
    ELSE IF 1 \in Injected(ts) THEN Unrewritten(SubSeq(ts, 15, Len(ts)))
    ELSE IF 1 \in Diagnostics(ts) THEN Unrewritten(SubSeq(ts, 9, Len(ts)))
    ELSE <<[Head(ts) EXCEPT !.ts = Unrewritten(Head(ts).ts)]>> \o Unrewritten(Tail(ts))

\* the tree ts without its `auto_default` annotations
RECURSIVE WithoutAutoDefault(_)
WithoutAutoDefault(ts) ==
    IF ts = <<>> THEN <<>>
    ELSE IF Len(ts) >= 2 /\ IsPunct(ts[1], "#") /\ IsGroup(ts[2], "Bracket")
            /\ IsAutoDefault(ts[2])
    THEN WithoutAutoDefault(SubSeq(ts, 3, Len(ts)))
    ELSE <<[Head(ts) EXCEPT !.ts = WithoutAutoDefault(Head(ts).ts)]>>
         \o WithoutAutoDefault(Tail(ts))

\* C5: the output of a rewrite, without the injected default values and the
\* diagnostics, is the input without its `auto_default` annotations: every
\* other token once, in its place
C5_OnlyInjectedIsNew ==
    pc = "done" => Unrewritten(output) = WithoutAutoDefault(input)

AllSpans == 0..(Size(args) + Size(input))

\* the diagnostics of o are its last tokens, one after the other
DiagnosticsTrail(o) ==
    LET n == Cardinality(Diagnostics(o))
    IN  Diagnostics(o) = {Len(o) - 8 * k + 1 : k \in 1..n}

\* o before its trailing diagnostics
Declaration(o) == SubSeq(o, 1, Len(o) - 8 * Cardinality(Diagnostics(o)))

\* the input without the annotation `attr` (a bracket group) and its `#`
InputWithout(attr) == SelectSeq(input, LAMBDA t : t.sp \notin {attr.sp - 1, attr.sp})

\* C6: an item that carries one valid skip annotation is rewritten as it is
\* without the annotation (every field gets the default value it gets
\* then), and the output is that declaration followed by the diagnostics,
\* exactly one of them the placement diagnostic, anchored at `skip`
C6_ContainerSkipReported ==
    (pc = "done" /\ Len(ValidSkips(ItemAttrs)) = 1) =>
        LET skip == ValidSkips(ItemAttrs)[1]
            bare == auto_default(args, InputWithout(skip))
        IN  /\ DiagnosticsTrail(output)
            /\ Reported(MsgContainer, AllSpans) = 1
            /\ Reported(MsgContainer, {SkipSpan(skip)}) = 1
            /\ bare.pc = "done"
            /\ Declaration(output) = Declaration(bare.output)
            /\ Declaration(output) # <<>>

\* a struct with a valid skip annotation whose field got its default value
C6_Witness ==
    /\ Rewritten
    /\ Len(ValidSkips(ItemAttrs)) = 1
    /\ ItemKeyword = "struct"
    /\ \E f \in SeqSet(FieldsOf(ItemBody)) :
          /\ ~f.init /\ ValidSkips(f.attrs) = <<>>
          /\ InjectedBeforeEnd(OutGroup(ItemBody).ts, f)

\* the tokens b stand in o, one after the other
StandsIn(o, b) ==
    LET from == IdxOf(o, Head(b))
    IN  /\ from > 0
        /\ from + Len(b) - 1 <= Len(o)
        /\ SubSeq(o, from, from + Len(b) - 1) = b

\* variant v is unit or positional and carries a valid skip annotation
Misplaced(v) == v.shape \in {"unit", "unnamed"} /\ ValidSkips(v.attrs) # <<>>

\* C7: a unit or positional variant that carries a valid skip annotation is
\* reported by exactly one placement diagnostic, anchored at its name (and no
\* other variant is); the variants after it are processed; and it is
\* emitted as written, from its visibility to its comma, after its foreign
\* attributes and without the annotation
C7_MisplacedVariantSkip ==
    (Rewritten /\ ItemKeyword = "enum") =>
        LET vs == SeqSet(VariantsOf(ItemBody))
            o == OutGroup(ItemBody).ts
        IN  /\ \A v \in vs :
                  /\ Reported(MsgVariant, {v.name.sp}) = IF Misplaced(v) THEN 1 ELSE 0
                  /\ IdxOf(o, v.name) > 0
                  /\ Misplaced(v) =>
                        /\ StandsIn(o, v.body)
                        /\ \A a \in SeqSet(v.attrs) :
                              /\ IsValidSkip(a) => a.sp \notin Spans(o)
                              /\ ~IsAutoDefault(a) =>
                                    /\ IdxOf(o, a) > 0
                                    /\ IdxOf(o, a) < IdxOf(o, v.name)
            /\ Reported(MsgVariant, AllSpans) = Cardinality({v \in vs : Misplaced(v)})

\* a skipped unit variant followed by a named variant whose field got its
\* default value
C7_Witness ==
    /\ Rewritten
    /\ ItemKeyword = "enum"
    /\ Len(VariantsOf(ItemBody)) = 2
    /\ Misplaced(VariantsOf(ItemBody)[1])
    /\ VariantsOf(ItemBody)[1].shape = "unit"
    /\ VariantsOf(ItemBody)[2].shape = "named"
    /\ Injected(OutGroup(VariantsOf(ItemBody)[2].payload[1]).ts) # {}
    /\ Reported(MsgVariant, {VariantsOf(ItemBody)[1].name.sp}) = 1

\* the fields the rewrite went through, each with its list
ReachedFields ==
    IF Rewritten
    THEN UNION {{[list |-> fl, field |-> f] : f \in SeqSet(FieldsOf(fl.group))} :
                  fl \in FieldLists}
    ELSE {}

\* the variants the rewrite went through
ReachedVariants ==
    IF Rewritten /\ ItemKeyword = "enum" THEN SeqSet(VariantsOf(ItemBody)) ELSE {}

\* the number of duplicate diagnostics due for the annotations attrs
DuplicatesDue(attrs) ==
    IF ValidSkips(attrs) = <<>> THEN 0 ELSE Len(ValidSkips(attrs)) - 1

\* every valid skip annotation of attrs after the first is reported by one
\* duplicate diagnostic, anchored at its `skip`, and there is no other
DuplicatesReported(attrs) ==
    /\ \A k \in 2..Len(ValidSkips(attrs)) :
          Reported(MsgDuplicate, {SkipSpan(ValidSkips(attrs)[k])}) = 1
    /\ Reported(MsgDuplicate, Spans(attrs)) = DuplicatesDue(attrs)

\* C8: n >= 2 valid skip annotations on a field or a variant give n-1
\* duplicate diagnostics, one at the `skip` of each annotation after the
\* first, and the flag stays set: no default value is injected for the
\* field, and none in the variant
C8_DuplicateSkips ==
    /\ \A r \in ReachedFields :
          Len(ValidSkips(r.field.attrs)) >= 2 =>
              /\ DuplicatesReported(r.field.attrs)
              /\ ~InjectedFor(OutGroup(r.list.group).ts, r.field)
    /\ \A v \in ReachedVariants :
          Len(ValidSkips(v.attrs)) >= 2 =>
              /\ DuplicatesReported(v.attrs)
              /\ v.shape = "named" => Injected(OutGroup(v.payload[1]).ts) = {}
    /\ (pc = "field_rest" /\ source_item_fields = ItemBody) =>
          \A fl \in FieldLists : fl.group = fields =>
              \A f \in SeqSet(FieldsOf(fl.group)) :
                  (f.name.sp = field_ident_span /\ Len(ValidSkips(f.attrs)) >= 2)
                      => field_is_skip
    /\ (pc = "variant_shape" /\ source_item_fields = ItemBody) =>
          \A v \in SeqSet(VariantsOf(ItemBody)) :
              (v.name.sp = variant_ident_span /\ Len(ValidSkips(v.attrs)) >= 2)
                  => is_skip

\* a field without default value that carries three valid skip annotations,
\* reported twice
C8_Witness ==
    \E r \in ReachedFields :
        /\ Len(ValidSkips(r.field.attrs)) = 3
        /\ ~r.field.init
        /\ Reported(MsgDuplicate, Spans(r.field.attrs)) = 2

SyntaxMessages == {MsgGroup, MsgAfter, MsgSkip, MsgEmpty, MsgExtra}

\* the malformed annotation a is reported by one diagnostic, a syntax one
ReportedOnce(a) ==
    LET d == {i \in Diagnostics(output) : output[i].sp \in Spans(<<a>>)}
    IN  /\ Cardinality(d) = 1
        /\ \A i \in d : output[i + 7].ts[1].s \in SyntaxMessages

HasMalformed(attrs) == \E a \in SeqSet(attrs) : IsMalformed(a)

\* C9: a malformed `auto_default` annotation is reported by exactly one
\* syntax diagnostic and is no skip: it adds no duplicate and no placement
\* diagnostic, the flag is that of the valid annotations alone, and a field
\* that is not skipped and shows no default value gets its default value
C9_MalformedIsNoSkip ==
    /\ pc \in {"done", "fatal"} =>
          /\ \A a \in SeqSet(ItemAttrs) : IsMalformed(a) => ReportedOnce(a)
          /\ HasMalformed(ItemAttrs) =>
                /\ Reported(MsgDuplicate, Spans(ItemAttrs)) = DuplicatesDue(ItemAttrs)
                /\ Reported(MsgContainer, AllSpans) =
                      IF ValidSkips(ItemAttrs) = <<>> THEN 0 ELSE 1
    /\ \A r \in ReachedFields :
          LET f == r.field
              o == OutGroup(r.list.group).ts
          IN  /\ \A a \in SeqSet(f.attrs) : IsMalformed(a) => ReportedOnce(a)
              /\ HasMalformed(f.attrs) =>
                    /\ Reported(MsgDuplicate, Spans(f.attrs)) = DuplicatesDue(f.attrs)
                    /\ (ValidSkips(f.attrs) = <<>> /\ ~r.list.skip /\ ~ShowsDefault(f))
                          => Cardinality({i \in Injected(o) : o[i + 1].sp = f.name.sp}) = 1
    /\ \A v \in ReachedVariants :
          /\ \A a \in SeqSet(v.attrs) : IsMalformed(a) => ReportedOnce(a)
          /\ HasMalformed(v.attrs) =>
                /\ Reported(MsgDuplicate, Spans(v.attrs)) = DuplicatesDue(v.attrs)
                /\ Reported(MsgVariant, {v.name.sp}) = IF Misplaced(v) THEN 1 ELSE 0
    /\ (pc = "field_rest" /\ source_item_fields = ItemBody) =>
          \A fl \in FieldLists : fl.group = fields =>
              \A f \in SeqSet(FieldsOf(fl.group)) :
                  (f.name.sp = field_ident_span /\ HasMalformed(f.attrs))
                      => field_is_skip = (ValidSkips(f.attrs) # <<>> \/ fl.skip)
    /\ (pc = "variant_shape" /\ source_item_fields = ItemBody) =>
          \A v \in SeqSet(VariantsOf(ItemBody)) :
              (v.name.sp = variant_ident_span /\ HasMalformed(v.attrs))
                  => is_skip = (ValidSkips(v.attrs) # <<>>)

\* a field with `#[auto_default(skip a)]` and nothing else, reported once,
\* that got its default value
C9_Witness ==
    \E r \in ReachedFields :
        /\ Len(r.field.attrs) = 1
        /\ IsMalformed(r.field.attrs[1])
        /\ Len(r.field.attrs[1].ts) = 2
        /\ Len(r.field.attrs[1].ts[2].ts) = 2
        /\ ReportedOnce(r.field.attrs[1])
        /\ InjectedBeforeEnd(OutGroup(r.list.group).ts, r.field)

\* the annotations the rewrite went through
ReachedAttrs ==
    IF pc \in {"done", "fatal"}
    THEN SeqSet(ItemAttrs)
         \cup UNION {SeqSet(r.field.attrs) : r \in ReachedFields}
         \cup UNION {SeqSet(v.attrs) : v \in ReachedVariants}
    ELSE {}

\* C10: a malformed `auto_default` annotation is dropped: neither its `#`
\* nor a bracket group for it is in the output
C10_MalformedDropped ==
    pc = "done" =>
        \A a \in ReachedAttrs :
            IsMalformed(a) =>
                \A i \in 1..Len(Flat(output)) :
                    LET x == Flat(output)[i]
                    IN  /\ ~(IsPunct(x, "#") /\ x.sp = a.sp - 1)
                        /\ ~(IsGroup(x, "Bracket") /\ x.sp = a.sp)

----------------------------------------------------------------------------
(* C11..C17 *)

\* the item from its keyword on
ItemHead == AfterVis(input)

\* the token after the annotations and the visibility is no `struct` or `enum`
NoStructOrEnum == ItemKeyword \notin {"struct", "enum"}

\* a `struct` or `enum` whose name is followed by no brace group
NoBody ==
    /\ ~NoStructOrEnum
    /\ Len(ItemHead) >= 2
    /\ \A i \in 3..Len(ItemHead) : ~IsGroup(ItemHead[i], "Brace")

\* C11: on a fatal shape error the output is exactly one diagnostic and no
\* other token, whatever the arguments and the item's annotations are; the
\* diagnostic of a missing body is anchored at the item's name
C11_FatalIsOneDiagnostic ==
    pc \in {"done", "fatal"} =>
        /\ NoStructOrEnum =>
              output = create_compile_error(Peek(ItemHead), MsgKind)
        /\ NoBody => output = CompileError(ItemHead[2].sp, MsgBody)

\* the diagnostics o ends with
Trail(o) == SubSeq(o, Len(o) - 8 * Cardinality(Diagnostics(o)) + 1, Len(o))

\* C12: arguments, however many, are reported by exactly one usage
\* diagnostic, anchored at the first argument token, and change nothing
\* else: the run ends as it does without arguments, with the same
\* declaration and, after the usage diagnostic, the same diagnostics
C12_ArgumentsReportedOnce ==
    (pc \in {"done", "fatal"} /\ args # <<>>) =>
        LET bare == auto_default(<<>>, input)
        IN  /\ Reported(MsgArgs, AllSpans) = 1
            /\ Reported(MsgArgs, {args[1].sp}) = 1
            /\ DiagnosticsTrail(output)
            /\ bare.pc = pc
            /\ Declaration(output) = Declaration(bare.output)
            /\ Trail(output) = CompileError(args[1].sp, MsgArgs) \o Trail(bare.output)

\* a struct handed over with the arguments `x, y` whose field got its
\* default value
C12_Witness ==
    /\ Rewritten
    /\ Len(args) = 3
    /\ ItemKeyword = "struct"
    /\ Injected(OutGroup(ItemBody).ts) # {}
    /\ Reported(MsgArgs, {args[1].sp}) = 1

\* the groups of the tree ts that are no message group of a diagnostic
PlainGroups(ts) ==
    {i \in 1..Len(Flat(ts)) :
        /\ Flat(ts)[i].k = "group"
        /\ ~(i >= 8 /\ IsIdent(Flat(ts)[i - 2], "compile_error"))}

\* C13: the diagnostics of a rewrite come after the last token of the
\* declaration, none inside a group of it, each once, and in source order:
\* none anchored at an earlier position follows one anchored at a later one
C13_DiagnosticsInSourceOrder ==
    pc = "done" =>
        /\ DiagnosticsTrail(output)
        /\ \A g \in PlainGroups(output) : Diagnostics(Flat(output)[g].ts) = {}
        /\ \A i, j \in Diagnostics(output) :
              i < j =>
                  /\ output[i].sp <= output[j].sp
                  /\ SubSeq(output, i, i + 7) # SubSeq(output, j, j + 7)

\* variant v carries no `auto_default` annotation
Unannotated(v) == \A a \in SeqSet(v.attrs) : ~IsAutoDefault(a)

\* the tokens of variant v from its payload on, the payload as rewritten
FromPayload(v) ==
    LET k == IdxOf(v.toks, v.payload[1])
    IN  <<OutGroup(v.payload[1])>> \o SubSeq(v.toks, k + 1, Len(v.toks))

\* what variant v is to be in the output: its own tokens, with the
\* rewritten field list in place of the payload of a named variant
Emitted(v) ==
    IF v.shape = "named"
    THEN SubSeq(v.toks, 1, IdxOf(v.toks, v.payload[1]) - 1) \o FromPayload(v)
    ELSE v.toks

\* the tokens b are the last tokens of o
EndsWith(o, b) == Len(b) <= Len(o) /\ SubSeq(o, Len(o) - Len(b) + 1, Len(o)) = b

\* C14: a unit or positional variant without annotation of this macro is
\* emitted token for token as written, annotations, visibility, name,
\* payload, discriminant and comma (so nothing is injected in a positional
\* payload); the discriminant and the comma of a named variant follow its
\* rewritten field list as written; the last variant gains no comma
C14_VariantsVerbatim ==
    (Rewritten /\ ItemKeyword = "enum") =>
        LET vs == VariantsOf(ItemBody)
            o == OutGroup(ItemBody).ts
        IN  \A n \in 1..Len(vs) :
                LET v == vs[n]
                IN  /\ Unannotated(v) => StandsIn(o, Emitted(v))
                    /\ v.shape = "unnamed" => OutGroup(v.payload[1]) = v.payload[1]
                    /\ v.shape = "named" => StandsIn(o, FromPayload(v))
                    /\ (n = Len(vs) /\ Unannotated(v)) => EndsWith(o, Emitted(v))
                    /\ n = Len(vs) =>
                          (IsPunct(o[Len(o)], ",") <=> v.term # <<>>)

\* a named variant whose field got its default value, followed by its
\* comma and by a last unit variant with a discriminant and no comma
C14_Witness ==
    /\ Rewritten
    /\ ItemKeyword = "enum"
    /\ Len(VariantsOf(ItemBody)) = 2
    /\ LET v == VariantsOf(ItemBody)[1]
           w == VariantsOf(ItemBody)[2]
           o == OutGroup(ItemBody).ts
       IN  /\ v.shape = "named" /\ v.term # <<>> /\ Unannotated(v)
           /\ Injected(OutGroup(v.payload[1]).ts) # {}
           /\ w.shape = "unit" /\ w.term = <<>> /\ Len(w.toks) = 3
           /\ IsPunct(w.toks[2], "=")
           /\ EndsWith(o, w.toks)

\* an item with nothing in it: a struct without fields, or an enum whose
\* variants (if any) are named variants without fields; no annotation of
\* this macro
Blank ==
    /\ ItemKeyword \in {"struct", "enum"}
    /\ \A a \in SeqSet(ItemAttrs) : ~IsAutoDefault(a)
    /\ ItemKeyword = "struct" => ItemBody.ts = <<>>
    /\ ItemKeyword = "enum" =>
          \A v \in SeqSet(VariantsOf(ItemBody)) :
              Unannotated(v) /\ v.shape = "named" /\ v.payload[1].ts = <<>>

\* C15: a struct without fields, an enum without variants and a named
\* variant without fields are rewritten to themselves: without arguments
\* the output is the input, header and empty braces included, with no
\* diagnostic and nothing injected, and the run does not abort
C15_EmptyListsUnchanged ==
    /\ (Blank /\ source_item_fields = ItemBody) => pc \notin {"panic", "fatal"}
    /\ (Rewritten /\ Blank /\ args = <<>>) =>
          /\ output = input
          /\ Diagnostics(output) = {}
          /\ \A g \in PlainGroups(output) : Injected(Flat(output)[g].ts) = {}
    /\ (Rewritten /\ ItemKeyword = "struct" /\ ItemBody.ts = <<>>) =>
          OutGroup(ItemBody) = ItemBody
    /\ (Rewritten /\ ItemKeyword = "enum") =>
          \A v \in SeqSet(VariantsOf(ItemBody)) :
              (v.shape = "named" /\ v.payload[1].ts = <<>>) =>
                  OutGroup(v.payload[1]) = v.payload[1]

\* a `pub(crate)` or `pub(in crate)` enum of named variants without fields
C15_Witness ==
    /\ Rewritten /\ Blank /\ args = <<>>
    /\ ItemKeyword = "enum"
    /\ Len(VariantsOf(ItemBody)) = 2
    /\ IsIdent(input[1], "pub") /\ IsGroup(input[2], "Parenthesis")
    /\ output = input

\* the text of = ::core::default::Default::default(), token by token
FragmentText ==
    <<"=", ":", ":", "core", ":", ":", "default", ":", ":", "Default",
      ":", ":", "default", "Parenthesis">>

\* the positions in o at which that text starts
Fragments(o) ==
    {i \in 1..(Len(o) - 13) :
        /\ [k \in 1..14 |-> o[i + k - 1].s] = FragmentText
        /\ o[i + 13].k = "group" /\ o[i + 13].ts = <<>>}

\* token t is a token of the list g (a group counts whatever is in it)
FromInput(t, g) ==
    \E u \in SeqSet(g.ts) : u.k = t.k /\ u.s = t.s /\ u.sp = t.sp

\* C16: whatever is new in a rewritten field list, of a struct or of a
\* named variant, before a comma or at the end, is the one fixed sequence
\* = ::core::default::Default::default(), and each of its tokens carries
\* the position of the name of the field it follows
C16_FragmentCarriesNameSpan ==
    Rewritten =>
        \A fl \in FieldLists :
            LET o == OutGroup(fl.group).ts
            IN  /\ \A i \in 1..Len(o) :
                      ~FromInput(o[i], fl.group) =>
                          \E j \in Fragments(o) : j <= i /\ i <= j + 13
                /\ \A j \in Fragments(o) :
                      \E f \in SeqSet(FieldsOf(fl.group)) :
                          /\ IdxOf(o, f.name) > 0 /\ IdxOf(o, f.name) < j
                          /\ \A k \in 0..13 : o[j + k].sp = f.name.sp

\* C17: the rewrite of a `struct` or an `enum` with a name ends by
\* returning: it never aborts (no unreachable!() arm, no failed expect),
\* it returns early only for a missing body, and until it has returned it
\* takes a step
C17_ReturnsWithoutAbort ==
    (ItemKeyword \in {"struct", "enum"} /\ Len(ItemHead) >= 2) =>
        /\ pc # "panic"
        /\ pc = "fatal" => NoBody
        /\ pc \in {"done", "fatal"} \/ Step(State) # State

====
